---- MODULE Spec2Model ----
(***************************************************************************)
(* Contact-form application (FastAPI + SQLAlchemy): the contact entries    *)
(* with their uploaded files, and the payment log written by the direct    *)
(* charge, the 3DS initiate and the bank-redirect callback.                *)
(*                                                                         *)
(* Handlers are `async def` with synchronous bodies, so one request runs   *)
(* at a time.  The handlers that touch the disk before they commit         *)
(* (contact-submit, update) are modelled step by step, so that a failure   *)
(* or a crash between two steps is a reachable state; every other handler  *)
(* is one action.  A step-by-step handler reads each field of its form     *)
(* where the code first uses it.                                           *)
(***************************************************************************)
EXTENDS Integers, Sequences, FiniteSets, TLC

VARIABLES
    contacts,   \* committed rows of table "contacts"; row id = position
    disk,       \* paths of the files present under uploads/
    clock,      \* datetime.now(timezone.utc)
    nextUuid,   \* the next unused uuid4()
    req,        \* the request being handled: its position and its locals
    resp,       \* outcome of the last finished request
    logs,       \* committed rows of table "paystrax_logs"; row id = position
    written,    \* history: every path save_file has ever written
    removed,    \* history: every path update_entry has removed from disk
    attempts,   \* history: the checkout attempt that logged each row of logs
    hist        \* history: the last finished operation and what it saw

vars == <<contacts, disk, clock, nextUuid, req, resp, logs, written, removed,
          attempts, hist>>

----------------------------------------------------------------------------
(* Bounds of the model *)

MaxContacts == 1
MaxClock == 1
MaxUuid == 3
MaxUploads == 1
MaxDelete == 1
MaxLogs == 2

----------------------------------------------------------------------------
(* Python values *)

\* Optional values: None is the empty sequence, a value v is <<v>>.
None == <<>>
Some(v) == <<v>>
IsNone(o) == o = None
Val(o) == o[1]

\* str.startswith
StartsWith(s, prefix) ==
    /\ Len(s) >= Len(prefix)
    /\ SubSeq(s, 1, Len(prefix)) = prefix

\* x in list
InList(x, l) == \E i \in 1..Len(l) : l[i] = x

\* What a call that raised ValueError yields in place of a value.
ValueError == [raises |-> "ValueError"]

\* The list without the first occurrence of x.
RECURSIVE RemoveFirst(_, _)
RemoveFirst(l, x) ==
    IF Head(l) = x THEN Tail(l)
    ELSE <<Head(l)>> \o RemoveFirst(Tail(l), x)

\* list.remove(x): removes the first occurrence; raises ValueError when x
\* is not in the list.
ListRemove(l, x) ==
    IF InList(x, l) THEN RemoveFirst(l, x) ELSE ValueError

\* json.dumps / json.loads: the column holds the encoded text, not the value
JsonDumps(v) == [json |-> v]
JsonLoads(t) == t.json

IMAGE_DIR == "uploads/images"
PDF_DIR == "uploads/pdfs"

\* os.path.join / os.path.basename on the paths the application builds
PathJoin(dir, name) == [dir |-> dir, name |-> name]
Basename(path) == path.name

----------------------------------------------------------------------------
(* Inputs *)

\* A phone is a str: the sequence of its code points.
\* ord("+"), ord("1"), ord("\n")
PlusSign == 43
DigitOne == 49
Newline == 10

\* The runs of code points that \d matches in a str pattern: the decimal
\* digits (category Nd) of every script, "0".."9" being the first run.
DecimalDigitRanges ==
    { <<48, 57>>, <<1632, 1641>>, <<1776, 1785>>, <<1984, 1993>>,
      <<2406, 2415>>, <<2534, 2543>>, <<2662, 2671>>, <<2790, 2799>>,
      <<2918, 2927>>, <<3046, 3055>>, <<3174, 3183>>, <<3302, 3311>>,
      <<3430, 3439>>, <<3558, 3567>>, <<3664, 3673>>, <<3792, 3801>>,
      <<3872, 3881>>, <<4160, 4169>>, <<4240, 4249>>, <<6112, 6121>>,
      <<6160, 6169>>, <<6470, 6479>>, <<6608, 6617>>, <<6784, 6793>>,
      <<6800, 6809>>, <<6992, 7001>>, <<7088, 7097>>, <<7232, 7241>>,
      <<7248, 7257>>, <<42528, 42537>>, <<43216, 43225>>, <<43264, 43273>>,
      <<43472, 43481>>, <<43504, 43513>>, <<43600, 43609>>, <<44016, 44025>>,
      <<65296, 65305>>, <<66720, 66729>>, <<68912, 68921>>, <<69734, 69743>>,
      <<69872, 69881>>, <<69942, 69951>>, <<70096, 70105>>, <<70384, 70393>>,
      <<70736, 70745>>, <<70864, 70873>>, <<71248, 71257>>, <<71360, 71369>>,
      <<71472, 71481>>, <<71904, 71913>>, <<72016, 72025>>, <<72784, 72793>>,
      <<73040, 73049>>, <<73120, 73129>>, <<92768, 92777>>, <<92864, 92873>>,
      <<93008, 93017>>, <<120782, 120831>>, <<123200, 123209>>,
      <<123632, 123641>>, <<125264, 125273>>, <<130032, 130041>> }

Digits == UNION { r[1]..r[2] : r \in DecimalDigitRanges }

\* "+12025550134" and "+1202555013x"
Phones ==
    { <<43, 49, 50, 48, 50, 53, 53, 53, 48, 49, 51, 52>>,
      <<43, 49, 50, 48, 50, 53, 53, 53, 48, 49, 51, 120>> }

RECURSIVE AllDigits(_)
AllDigits(s) == s = <<>> \/ (Head(s) \in Digits /\ AllDigits(Tail(s)))

\* re.match(r"^\+?1?\d{9,15}$", phone): the optional groups are greedy with
\* backtracking, so the phone matches when some split of it does; `$`
\* matches at the end and also just before a newline that ends the string.
PhoneMatches(phone) ==
    \E plus \in 0..1, one \in 0..1, nl \in 0..1 :
        /\ Len(phone) >= plus + one + nl
        /\ plus = 1 => phone[1] = PlusSign
        /\ one = 1 => phone[plus + 1] = DigitOne
        /\ nl = 1 => phone[Len(phone)] = Newline
        /\ LET rest == SubSeq(phone, plus + one + 1, Len(phone) - nl)
           IN /\ Len(rest) >= 9
              /\ Len(rest) <= 15
              /\ AllDigits(rest)

Messages == {"first message", "second message"}

\* An UploadFile: the extension of its filename and the major type of its
\* content type; an empty filename is ext = None.
ImageUpload == [filename |-> Some(".png"), content_type |-> "image"]
PdfUpload == [filename |-> Some(".pdf"), content_type |-> "application"]
TextUpload == [filename |-> Some(".txt"), content_type |-> "text"]
EmptyUpload == [filename |-> None, content_type |-> "application"]

GalleryUploads == {ImageUpload, TextUpload}

\* Names a client may send in delete_images: any basename the server has
\* ever handed out for an image.
KnownNames == { [uuid |-> u, ext |-> ".png"] : u \in 1..(nextUuid - 1) }

----------------------------------------------------------------------------
(* State *)

Idle == [pc |-> "idle"]

\* While a request is being handled there is no outcome yet.
Pending == [kind |-> "pending"]
NoHist == [op |-> "none"]

Init ==
    /\ contacts = <<>>
    /\ disk = {}
    /\ clock = 0
    /\ nextUuid = 1
    /\ req = Idle
    /\ resp = [kind |-> "none"]
    /\ logs = <<>>
    /\ written = {}
    /\ removed = {}
    /\ attempts = <<>>
    /\ hist = NoHist

\* db.query(ContactEntry).filter(ContactEntry.id == contact_id).first()
HasEntry(id) == id \in 1..Len(contacts)

\* The clock of the host advances between requests.
Tick ==
    /\ req.pc = "idle"
    /\ clock < MaxClock
    /\ clock' = clock + 1
    /\ UNCHANGED <<contacts, disk, nextUuid, req, resp, logs, written, removed, hist, attempts>>

----------------------------------------------------------------------------
(* save_file *)

\* The path save_file builds for an upload: uuid4() + extension, in folder.
SavePath(upload, folder) ==
    PathJoin(folder, [uuid |-> nextUuid, ext |-> Val(upload.filename)])

\* save_file with the copy lost: the path is returned, nothing is on disk.
SaveFileLost(upload, folder) ==
    /\ nextUuid' = nextUuid + 1
    /\ UNCHANGED <<disk, written>>

\* save_file writes the file and returns its path.
SaveFile(upload, folder) ==
    /\ disk' = disk \cup {SavePath(upload, folder)}
    /\ written' = written \cup {SavePath(upload, folder)}
    /\ nextUuid' = nextUuid + 1

\* save_file raises.  Either open() failed: there is no file, and the uuid
\* it drew names nothing, so it counts as unused.  Or copyfileobj failed
\* after open() had created the file: the file, empty or partial, stays.
SaveFileRaised(upload, folder, created) ==
    IF created
    THEN /\ disk' = disk \cup {SavePath(upload, folder)}
         /\ written' = written \cup {SavePath(upload, folder)}
         /\ nextUuid' = nextUuid + 1
    ELSE UNCHANGED <<disk, written, nextUuid>>

\* How a call of save_file may end.
SaveOutcomes == {"saved", "open_failed", "copy_failed"}

\* A request that raised: the session is dropped without a commit.
Raise(status, op) ==
    /\ req' = Idle
    /\ resp' = [kind |-> "error", status |-> status]
    /\ hist' = [op |-> op]

----------------------------------------------------------------------------
(* POST /contact-submit/ *)

Names == {"Jane Doe"}
Emails == {"jane@example.com"}

\* Validation, then the request starts saving its files.
SubmitStart(name, email, phone, message) ==
    /\ req.pc = "idle"
    /\ Len(contacts) < MaxContacts
    /\ nextUuid + 1 <= MaxUuid
    /\ IF ~PhoneMatches(phone)
       THEN /\ resp' = [kind |-> "error", status |-> 400]
            /\ hist' = [op |-> "submit"]
            /\ UNCHANGED req
       ELSE /\ req' = [pc |-> "sub_image", name |-> name, email |-> email,
                       phone |-> phone, message |-> message,
                       img_path |-> None, pdf_path |-> None,
                       gallery_paths |-> <<>>, n |-> 0]
            /\ resp' = Pending
            /\ hist' = NoHist
    /\ UNCHANGED <<contacts, disk, clock, nextUuid, logs, written, removed, attempts>>

\* img_path = save_file(image, IMAGE_DIR)
SubmitSaveImage ==
    /\ req.pc = "sub_image"
    /\ \E outcome \in SaveOutcomes :
        IF outcome = "saved"
        THEN /\ SaveFile(ImageUpload, IMAGE_DIR)
             /\ req' = [req EXCEPT !.pc = "sub_pdf",
                                   !.img_path = Some(SavePath(ImageUpload, IMAGE_DIR))]
             /\ UNCHANGED <<resp, hist>>
        ELSE /\ SaveFileRaised(ImageUpload, IMAGE_DIR, outcome = "copy_failed")
             /\ Raise(500, "submit")
    /\ UNCHANGED <<contacts, clock, logs, removed, attempts>>

\* pdf_path = save_file(pdf, PDF_DIR)
SubmitSavePdf ==
    /\ req.pc = "sub_pdf"
    /\ \E outcome \in SaveOutcomes :
        IF outcome = "saved"
        THEN /\ SaveFile(PdfUpload, PDF_DIR)
             /\ req' = [req EXCEPT !.pc = "sub_gallery",
                                   !.pdf_path = Some(SavePath(PdfUpload, PDF_DIR))]
             /\ UNCHANGED <<resp, hist>>
        ELSE /\ SaveFileRaised(PdfUpload, PDF_DIR, outcome = "copy_failed")
             /\ Raise(500, "submit")
    /\ UNCHANGED <<contacts, clock, logs, removed, attempts>>

\* One round of the loop over multiple_images, for file.
SubmitSaveGallery(file) ==
    /\ req.pc = "sub_gallery"
    /\ req.n < MaxUploads
    /\ nextUuid <= MaxUuid
    /\ IF ~IsNone(file.filename) /\ file.content_type = "image"
       THEN \E outcome \in SaveOutcomes :
             IF outcome = "saved"
             THEN /\ SaveFile(file, IMAGE_DIR)
                  /\ req' = [req EXCEPT
                               !.n = @ + 1,
                               !.gallery_paths =
                                   Append(@, Basename(SavePath(file, IMAGE_DIR)))]
                  /\ UNCHANGED <<resp, hist>>
             ELSE /\ SaveFileRaised(file, IMAGE_DIR, outcome = "copy_failed")
                  /\ Raise(500, "submit")
       ELSE /\ req' = [req EXCEPT !.n = @ + 1]
            /\ UNCHANGED <<disk, written, nextUuid, resp, hist>>
    /\ UNCHANGED <<contacts, clock, logs, removed, attempts>>

\* The row ContactEntry(...) as the INSERT stores it.
NewContact(r) ==
    [id |-> Len(contacts) + 1,
     name |-> r.name, email |-> r.email, phone |-> r.phone,
     message |-> r.message,
     image_path |-> Val(r.img_path), pdf_path |-> Val(r.pdf_path),
     multiple_images |-> JsonDumps(r.gallery_paths),
     created_at |-> clock, updated_at |-> clock, deleted_at |-> None]

\* The loop is over: db.add(new_contact); db.commit(); redirect
SubmitCommit ==
    /\ req.pc = "sub_gallery"
    /\ contacts' = Append(contacts, NewContact(req))
    /\ req' = Idle
    /\ resp' = [kind |-> "redirect", status |-> 303, url |-> "/view-details"]
    /\ hist' = [op |-> "submit"]
    /\ UNCHANGED <<disk, clock, nextUuid, logs, written, removed, attempts>>

\* The process dies while a request is being handled: nothing is committed,
\* what is on disk stays.
Crash ==
    /\ req.pc # "idle"
    /\ req' = Idle
    /\ resp' = [kind |-> "crash"]
    /\ hist' = [op |-> "crash", pc |-> req.pc]
    /\ UNCHANGED <<contacts, disk, clock, nextUuid, logs, written, removed, attempts>>

----------------------------------------------------------------------------
(* GET /view-details *)

\* The listing without its filter.
AllContacts == contacts

\* db.query(ContactEntry).filter(ContactEntry.deleted_at == None).all()
ActiveContacts == SelectSeq(contacts, LAMBDA c : c.deleted_at = None)

dashboard_page ==
    /\ req.pc = "idle"
    /\ resp' = [kind |-> "details", contacts |-> ActiveContacts]
    /\ hist' = [op |-> "dashboard"]
    /\ UNCHANGED <<contacts, disk, clock, nextUuid, req, logs, written, removed, attempts>>

----------------------------------------------------------------------------
(* POST /delete/{contact_id}, POST /restore/{contact_id} *)

\* The UPDATE a commit emits for a changed row: onupdate sets updated_at.
\* An unchanged row emits no UPDATE.
Flush(old, new) ==
    IF new = old THEN old ELSE [new EXCEPT !.updated_at = clock]

soft_delete_entry(contact_id) ==
    /\ req.pc = "idle"
    /\ IF HasEntry(contact_id)
       THEN /\ contacts' =
                 [contacts EXCEPT ![contact_id] =
                     Flush(@, [@ EXCEPT !.deleted_at = Some(clock)])]
            /\ hist' = [op |-> "soft_delete", id |-> contact_id, found |-> TRUE,
                        pre |-> contacts[contact_id]]
       ELSE /\ UNCHANGED contacts
            /\ hist' = [op |-> "soft_delete", id |-> contact_id, found |-> FALSE]
    /\ resp' = [kind |-> "redirect", status |-> 303, url |-> "/view-details"]
    /\ UNCHANGED <<disk, clock, nextUuid, req, logs, written, removed, attempts>>

restore_entry(contact_id) ==
    /\ req.pc = "idle"
    /\ IF HasEntry(contact_id)
       THEN /\ contacts' =
                 [contacts EXCEPT ![contact_id] =
                     Flush(@, [@ EXCEPT !.deleted_at = None])]
            /\ hist' =
                 IF hist.op = "soft_delete" /\ hist.id = contact_id /\ hist.found
                 THEN [op |-> "delete_restore", id |-> contact_id, found |-> TRUE,
                       pre |-> hist.pre]
                 ELSE [op |-> "restore", id |-> contact_id, found |-> TRUE,
                       pre |-> contacts[contact_id]]
       ELSE /\ UNCHANGED contacts
            /\ hist' = [op |-> "restore", id |-> contact_id, found |-> FALSE]
    /\ resp' = [kind |-> "redirect", status |-> 303, url |-> "/view-trash"]
    /\ UNCHANGED <<disk, clock, nextUuid, req, logs, written, removed, attempts>>

----------------------------------------------------------------------------
(* POST /update/{contact_id} *)

\* `upload and upload.filename`
Provided(upload) == ~IsNone(upload) /\ ~IsNone(Val(upload).filename)

OptUploads(u) == {None, Some(u)}

\* The lookup; the entry is loaded into the session.
UpdateStart(contact_id, message) ==
    /\ req.pc = "idle"
    /\ IF ~HasEntry(contact_id)
       THEN /\ resp' = [kind |-> "error", status |-> 404]
            /\ hist' = [op |-> "update"]
            /\ UNCHANGED req
       ELSE /\ req' = [pc |-> "upd_image", id |-> contact_id, message |-> message,
                       image_path |-> contacts[contact_id].image_path,
                       pdf_path |-> contacts[contact_id].pdf_path,
                       current_gallery |-> <<>>, delete_images |-> <<>>,
                       n |-> 0]
            /\ resp' = Pending
            /\ hist' = NoHist
    /\ UNCHANGED <<contacts, disk, clock, nextUuid, logs, written, removed, attempts>>

\* `if os.path.exists(path): os.remove(path)`; os.remove may raise.
RemoveIfExists(path, ok) ==
    IF path \in disk /\ ok
    THEN /\ disk' = disk \ {path}
         /\ removed' = removed \cup {path}
    ELSE UNCHANGED <<disk, removed>>

\* Whether that statement raised.
RemoveRaised(path, ok) == path \in disk /\ ~ok

\* os.remove raised in update_entry: nothing catches it, the handler ends
\* with a 500 and the session is dropped without a commit.
RemoveFailed ==
    /\ req' = Idle
    /\ resp' = [kind |-> "error", status |-> 500]
    /\ hist' = [op |-> "update_remove_failed", id |-> req.id,
                message |-> req.message]

\* if image and image.filename:
\*     if os.path.exists(entry.image_path): os.remove(entry.image_path)
UpdRemoveImage(image) ==
    /\ req.pc = "upd_image"
    /\ IF Provided(image)
       THEN /\ nextUuid <= MaxUuid
            /\ \E ok \in BOOLEAN :
                /\ RemoveIfExists(req.image_path, ok)
                /\ IF RemoveRaised(req.image_path, ok)
                   THEN RemoveFailed
                   ELSE /\ req' = [req EXCEPT !.pc = "upd_image_save"]
                        /\ UNCHANGED <<resp, hist>>
       ELSE /\ req' = [req EXCEPT !.pc = "upd_pdf"]
            /\ UNCHANGED <<disk, removed, resp, hist>>
    /\ UNCHANGED <<contacts, clock, nextUuid, logs, written, attempts>>

\* entry.image_path = save_file(image, IMAGE_DIR)
UpdSaveImage ==
    /\ req.pc = "upd_image_save"
    /\ \E outcome \in SaveOutcomes :
        IF outcome = "saved"
        THEN /\ SaveFile(ImageUpload, IMAGE_DIR)
             /\ req' = [req EXCEPT !.pc = "upd_pdf",
                                   !.image_path = SavePath(ImageUpload, IMAGE_DIR)]
             /\ UNCHANGED <<resp, hist>>
        ELSE /\ SaveFileRaised(ImageUpload, IMAGE_DIR, outcome = "copy_failed")
             /\ Raise(500, "update")
    /\ UNCHANGED <<contacts, clock, logs, removed, attempts>>

\* if pdf and pdf.filename:
\*     if os.path.exists(entry.pdf_path): os.remove(entry.pdf_path)
\* and, when no pdf is sent, current_gallery = json.loads(entry.multiple_images)
UpdRemovePdf(pdf) ==
    /\ req.pc = "upd_pdf"
    /\ IF Provided(pdf)
       THEN /\ nextUuid <= MaxUuid
            /\ \E ok \in BOOLEAN :
                /\ RemoveIfExists(req.pdf_path, ok)
                /\ IF RemoveRaised(req.pdf_path, ok)
                   THEN RemoveFailed
                   ELSE /\ req' = [req EXCEPT !.pc = "upd_pdf_save"]
                        /\ UNCHANGED <<resp, hist>>
       ELSE /\ req' = [req EXCEPT
                         !.pc = "upd_gallery_del",
                         !.current_gallery =
                             JsonLoads(contacts[req.id].multiple_images)]
            /\ UNCHANGED <<disk, removed, resp, hist>>
    /\ UNCHANGED <<contacts, clock, nextUuid, logs, written, attempts>>

\* entry.pdf_path = save_file(pdf, PDF_DIR)
\* current_gallery = json.loads(entry.multiple_images)
UpdSavePdf ==
    /\ req.pc = "upd_pdf_save"
    /\ \E outcome \in SaveOutcomes :
        IF outcome = "saved"
        THEN /\ SaveFile(PdfUpload, PDF_DIR)
             /\ req' = [req EXCEPT
                          !.pc = "upd_gallery_del",
                          !.pdf_path = SavePath(PdfUpload, PDF_DIR),
                          !.current_gallery =
                              JsonLoads(contacts[req.id].multiple_images)]
             /\ UNCHANGED <<resp, hist>>
        ELSE /\ SaveFileRaised(PdfUpload, PDF_DIR, outcome = "copy_failed")
             /\ Raise(500, "update")
    /\ UNCHANGED <<contacts, clock, logs, removed, attempts>>

\* The round without its membership test: for a name that is not in the
\* list, list.remove raises and the handler ends with a 500.
DeleteGalleryImageUnguarded(img_name, ok) ==
    LET f_path == PathJoin(IMAGE_DIR, img_name)
    IN IF ~InList(img_name, req.current_gallery)
       THEN /\ Raise(500, "update")
            /\ UNCHANGED <<disk, removed>>
       ELSE /\ RemoveIfExists(f_path, ok)
            /\ IF RemoveRaised(f_path, ok)
               THEN RemoveFailed
               ELSE /\ req' = [req EXCEPT
                                 !.delete_images = Append(@, img_name),
                                 !.current_gallery = ListRemove(@, img_name)]
                    /\ UNCHANGED <<resp, hist>>

\* One round of the loop over delete_images, for img_name, with os.remove
\* succeeding or not.
DeleteGalleryImage(img_name, ok) ==
    LET f_path == PathJoin(IMAGE_DIR, img_name)
    IN IF InList(img_name, req.current_gallery)
       THEN /\ RemoveIfExists(f_path, ok)
            /\ IF RemoveRaised(f_path, ok)
               THEN RemoveFailed
               ELSE /\ req' = [req EXCEPT
                                 !.delete_images = Append(@, img_name),
                                 !.current_gallery = ListRemove(@, img_name)]
                    /\ UNCHANGED <<resp, hist>>
       ELSE /\ req' = [req EXCEPT !.delete_images = Append(@, img_name)]
            /\ UNCHANGED <<disk, removed, resp, hist>>

UpdDeleteGallery(img_name) ==
    /\ req.pc = "upd_gallery_del"
    /\ Len(req.delete_images) < MaxDelete
    /\ \E ok \in BOOLEAN : DeleteGalleryImage(img_name, ok)
    /\ UNCHANGED <<contacts, clock, nextUuid, logs, written, attempts>>

\* The loop over delete_images is over.
UpdDeleteDone ==
    /\ req.pc = "upd_gallery_del"
    /\ req' = [req EXCEPT !.pc = "upd_gallery_add"]
    /\ UNCHANGED <<contacts, disk, clock, nextUuid, resp, logs, written, removed, hist, attempts>>

\* One round of the loop over new_gallery, for f.
UpdAddGallery(f) ==
    /\ req.pc = "upd_gallery_add"
    /\ req.n < MaxUploads
    /\ nextUuid <= MaxUuid
    /\ IF ~IsNone(f.filename)
       THEN \E outcome \in SaveOutcomes :
             IF outcome = "saved"
             THEN /\ SaveFile(f, IMAGE_DIR)
                  /\ req' = [req EXCEPT
                               !.n = @ + 1,
                               !.current_gallery =
                                   Append(@, Basename(SavePath(f, IMAGE_DIR)))]
                  /\ UNCHANGED <<resp, hist>>
             ELSE /\ SaveFileRaised(f, IMAGE_DIR, outcome = "copy_failed")
                  /\ Raise(500, "update")
       ELSE /\ req' = [req EXCEPT !.n = @ + 1]
            /\ UNCHANGED <<disk, written, nextUuid, resp, hist>>
    /\ UNCHANGED <<contacts, clock, logs, removed, attempts>>

\* The loop over new_gallery is over: entry.message = message;
\* entry.multiple_images = json.dumps(current_gallery); db.commit(); redirect
UpdCommit ==
    /\ req.pc = "upd_gallery_add"
    /\ contacts' =
         [contacts EXCEPT ![req.id] =
             Flush(@, [@ EXCEPT !.image_path = req.image_path,
                                !.pdf_path = req.pdf_path,
                                !.message = req.message,
                                !.multiple_images = JsonDumps(req.current_gallery)])]
    /\ req' = Idle
    /\ resp' = [kind |-> "redirect", status |-> 303, url |-> "/view-details"]
    /\ hist' = [op |-> "update"]
    /\ UNCHANGED <<disk, clock, nextUuid, logs, written, removed, attempts>>

----------------------------------------------------------------------------
(* The contact system *)

Next ==
    \/ Tick
    \/ \E name \in Names, email \in Emails, phone \in Phones, message \in Messages :
            SubmitStart(name, email, phone, message)
    \/ SubmitSaveImage
    \/ SubmitSavePdf
    \/ \E file \in GalleryUploads : SubmitSaveGallery(file)
    \/ SubmitCommit
    \/ Crash
    \/ dashboard_page
    \/ \E contact_id \in 1..(MaxContacts + 1) : soft_delete_entry(contact_id)
    \/ \E contact_id \in 1..(MaxContacts + 1) : restore_entry(contact_id)
    \/ \E contact_id \in 1..(MaxContacts + 1), message \in Messages :
            UpdateStart(contact_id, message)
    \/ \E image \in OptUploads(ImageUpload) : UpdRemoveImage(image)
    \/ UpdSaveImage
    \/ \E pdf \in OptUploads(PdfUpload) : UpdRemovePdf(pdf)
    \/ UpdSavePdf
    \/ \E img_name \in KnownNames : UpdDeleteGallery(img_name)
    \/ UpdDeleteDone
    \/ \E f \in {ImageUpload, EmptyUpload} : UpdAddGallery(f)
    \/ UpdCommit

Spec == Init /\ [][Next]_vars

----------------------------------------------------------------------------
(* The payment gateway, as the helpers and the callback see it *)

\* A JSON object of the gateway: absent keys are None.
Dict(id, result, redirect, error) ==
    [id |-> id, result |-> result, redirect |-> redirect, error |-> error]
Result(code, description) == [code |-> code, description |-> description]

\* dict.get(key, default) on an optional field
Get(field, default) == IF IsNone(field) THEN default ELSE Val(field)

\* "000.100.110", "000.200.000", "800.100.152"
CodeSuccess == <<"0", "0", "0", ".", "1", "0", "0", ".", "1", "1", "0">>
CodePending == <<"0", "0", "0", ".", "2", "0", "0", ".", "0", "0", "0">>
CodeDeclined == <<"8", "0", "0", ".", "1", "0", "0", ".", "1", "5", "2">>
\* 'Error', 'PENDING_3DS', "000"
CodeError == <<"E", "r", "r", "o", "r">>
CodePending3DS == <<"P", "E", "N", "D", "I", "N", "G", "_", "3", "D", "S">>
SuccessPrefix == <<"0", "0", "0">>

PayIds == {"pay-1", "pay-2"}
Amounts == {"10.00"}

Approved == Result(Some(CodeSuccess), Some("Request successfully processed"))
Declined == Result(Some(CodeDeclined), Some("transaction declined"))
Waiting == Result(Some(CodePending), Some("transaction pending"))
Uncoded == Result(None, None)

\* What the gateway may answer: a JSON object (with status 200, or with an
\* error status), an error status with a body that is no JSON, no answer.
JsonReply(body) == [kind |-> "json", body |-> body]
HttpErrorJson(body) == [kind |-> "http_error_json", body |-> body]
HttpErrorText == [kind |-> "http_error_text", body |-> Dict(None, None, None, None)]
Unreachable == [kind |-> "url_error", body |-> Dict(None, None, None, None)]

ChargeReplies ==
    { JsonReply(Dict(Some(p), Some(r), None, None)) :
          p \in PayIds, r \in {Approved, Declined} }
    \cup { HttpErrorJson(Dict(None, Some(Declined), None, None)),
           JsonReply(Dict(None, None, None, None)),
           HttpErrorText, Unreachable }

InitiateReplies ==
    { JsonReply(Dict(Some(p), r, Some("https://bank.example/acs"), None)) :
          p \in PayIds, r \in {Some(Waiting), None} }
    \cup { JsonReply(Dict(Some(p), Some(Declined), None, None)) : p \in PayIds }
    \cup { HttpErrorText, Unreachable }

StatusReplies ==
    { JsonReply(Dict(None, Some(r), None, None)) :
          r \in {Approved, Declined, Uncoded} }
    \cup { HttpErrorJson(Dict(None, Some(Declined), None, None)),
           HttpErrorText, Unreachable }

\* send_payment_request / send_3ds_request: json.loads of the body of the
\* answer or of the HTTPError; {"error": reason} on URLError.  json.loads
\* raises on a body that is no JSON.
HelperRaises(reply) == reply.kind = "http_error_text"
HelperReturns(reply) ==
    IF reply.kind = "url_error"
    THEN Dict(None, None, None, Some("connection refused"))
    ELSE reply.body

\* urllib.request.urlopen + json.loads in the callback: any error status,
\* any network error and any body that is no JSON raises.
StatusRaises(reply) == reply.kind # "json"

----------------------------------------------------------------------------
(* POST /checkout *)

\* PaymentLog(...) as handle_checkout builds it.
CheckoutLog(api_res, amount) ==
    [id |-> Len(logs) + 1,
     pay_id |-> Get(api_res.id, "N/A"),
     status_code |-> Some(Get(Get(api_res.result, Uncoded).code, CodeError)),
     status_desc |-> Some(Get(Get(api_res.result, Uncoded).description,
                              "No description")),
     amount |-> Some(amount),
     full_response |-> JsonDumps(api_res),
     created_at |-> clock]

handle_checkout(amount, reply) ==
    /\ req.pc = "idle"
    /\ Len(logs) < MaxLogs
    /\ IF HelperRaises(reply)
       THEN /\ resp' = [kind |-> "error", status |-> 500]
            /\ UNCHANGED <<logs, attempts>>
       ELSE /\ logs' = Append(logs, CheckoutLog(HelperReturns(reply), amount))
            /\ attempts' = Append(attempts, [flow |-> "direct",
                                             gateway_id |-> HelperReturns(reply).id])
            /\ resp' = [kind |-> "json", status |-> "Database Updated",
                        gateway_response |-> HelperReturns(reply)]
    /\ hist' = [op |-> "checkout", before |-> logs, reply |-> reply]
    /\ UNCHANGED <<contacts, disk, clock, nextUuid, req, written, removed>>

----------------------------------------------------------------------------
(* POST /checkout-3ds *)

\* PaymentLog(...) as initiate_3ds_payment builds it.
InitiateLog(api_response, amount) ==
    [id |-> Len(logs) + 1,
     pay_id |-> Get(api_response.id, "N/A"),
     status_code |-> Some(Get(Get(api_response.result, Uncoded).code,
                              CodePending3DS)),
     status_desc |-> Some("Awaiting 3DS Authentication"),
     amount |-> amount,
     full_response |-> JsonDumps(api_response),
     created_at |-> clock]

initiate_3ds_payment(amount, reply) ==
    /\ req.pc = "idle"
    /\ Len(logs) < MaxLogs
    /\ IF HelperRaises(reply)
       THEN /\ resp' = [kind |-> "error", status |-> 500]
            /\ UNCHANGED <<logs, attempts>>
       ELSE /\ logs' = Append(logs, InitiateLog(HelperReturns(reply), amount))
            /\ attempts' = Append(attempts, [flow |-> "3ds",
                                             gateway_id |-> HelperReturns(reply).id])
            /\ resp' = IF ~IsNone(HelperReturns(reply).redirect)
                       THEN [kind |-> "redirect", status |-> 303,
                             url |-> Val(HelperReturns(reply).redirect)]
                       ELSE [kind |-> "json", gateway_response |-> HelperReturns(reply)]
    /\ hist' = [op |-> "initiate", before |-> logs, reply |-> reply]
    /\ UNCHANGED <<contacts, disk, clock, nextUuid, req, written, removed>>

----------------------------------------------------------------------------
(* GET /payment-callback *)

\* db.query(PaymentLog).filter(PaymentLog.pay_id == id).update({...})
UpdateByPayId(id, final_res) ==
    [i \in 1..Len(logs) |->
        IF logs[i].pay_id = id
        THEN [logs[i] EXCEPT
                !.status_code = Get(final_res.result, Uncoded).code,
                !.status_desc = Get(final_res.result, Uncoded).description,
                !.full_response = JsonDumps(final_res)]
        ELSE logs[i]]

VerificationFailed == [kind |-> "json", error |-> "Verification Failed"]

handle_bank_redirection(id, reply) ==
    /\ req.pc = "idle"
    /\ IF StatusRaises(reply)
       THEN /\ resp' = VerificationFailed
            /\ hist' = [op |-> "callback", id |-> id, before |-> logs,
                        looked_up |-> FALSE]
            /\ UNCHANGED logs
       ELSE LET status_code == Get(reply.body.result, Uncoded).code
                status_desc == Get(reply.body.result, Uncoded).description
            IN /\ logs' = UpdateByPayId(id, reply.body)
               /\ hist' = [op |-> "callback", id |-> id, before |-> logs,
                           looked_up |-> TRUE]
               /\ resp' =
                    IF IsNone(status_code)
                    THEN VerificationFailed
                    ELSE [kind |-> "html",
                          color |-> IF StartsWith(Val(status_code), SuccessPrefix)
                                    THEN "#28a745" ELSE "#dc3545",
                          status_desc |-> status_desc,
                          id |-> id]
    /\ UNCHANGED <<contacts, disk, clock, nextUuid, req, written, removed, attempts>>

----------------------------------------------------------------------------
(* The payment system *)

CallbackIds == PayIds \cup {"N/A"}

PayNext ==
    \/ Tick
    \/ \E amount \in Amounts, reply \in ChargeReplies : handle_checkout(amount, reply)
    \/ \E amount \in {None} \cup {Some(a) : a \in Amounts}, reply \in InitiateReplies :
            initiate_3ds_payment(amount, reply)
    \/ \E id \in CallbackIds, reply \in StatusReplies :
            handle_bank_redirection(id, reply)

PaySpec == Init /\ [][PayNext]_vars

----------------------------------------------------------------------------
(* Properties of the contact system, checked under Spec *)

\* The files a committed row refers to.
Refs(c) ==
    {c.image_path, c.pdf_path}
    \cup { PathJoin(IMAGE_DIR, JsonLoads(c.multiple_images)[i]) :
             i \in 1..Len(JsonLoads(c.multiple_images)) }

AllRefs == UNION { Refs(contacts[id]) : id \in 1..Len(contacts) }

\* C1: the listing of /view-details holds exactly the stored entries whose
\* deleted_at is null: none with a deleted_at, and every one without.
ListingIsTheActiveEntries ==
    resp.kind = "details" =>
        /\ \A i \in 1..Len(resp.contacts) :
              /\ resp.contacts[i].deleted_at = None
              /\ InList(resp.contacts[i], contacts)
        /\ \A id \in 1..Len(contacts) :
              contacts[id].deleted_at = None => InList(contacts[id], resp.contacts)

\* A listing that hides a stored entry, soft-deleted after its creation.
ListingWitness ==
    /\ resp.kind = "details"
    /\ Len(resp.contacts) < Len(contacts)
    /\ \E id \in 1..Len(contacts) :
          /\ contacts[id].deleted_at # None
          /\ Val(contacts[id].deleted_at) > contacts[id].created_at

\* C4: soft_delete(id) followed by restore(id) on an active entry leaves the
\* row as it was before the soft_delete, updated_at included.
DeleteThenRestoreIsIdentity ==
    (hist.op = "delete_restore" /\ hist.pre.deleted_at = None)
        => contacts[hist.id] = hist.pre

\* C5: soft_delete and restore of an id that has no entry answer 404.
MissingIdIsNotFound ==
    (hist.op \in {"soft_delete", "restore"} /\ ~hist.found)
        => (resp.kind = "error" /\ resp.status = 404)

\* C6: every file a committed row refers to has been written by save_file,
\* and is on disk unless update_entry removed it: in every state, those
\* after a failure or a crash between save_file and the commit included,
\* the write path leaves no reference to a file that was never written.
CommittedRefsWereWritten ==
    /\ AllRefs \subseteq written
    /\ AllRefs \ removed \subseteq disk

\* An update died after it had saved the replacement image: that file is on
\* disk and no committed row refers to it.
OrphanAfterCrash ==
    /\ hist.op = "crash"
    /\ hist.pc = "upd_pdf"
    /\ Len(contacts) >= 1
    /\ \E f \in disk : f \notin AllRefs /\ f.dir = IMAGE_DIR

\* C7: once no request is in flight (finished, failed or crashed), no
\* committed row refers to a file that update_entry has removed from disk.
NoRefToRemovedFile ==
    req.pc = "idle" => AllRefs \cap removed = {}

\* C8: a round of the delete_images loop for a name that is not in the
\* gallery list raises nothing, touches no file and leaves the list alone.
GalleryMissIsNoOp ==
    [][\A img_name \in KnownNames :
          (/\ req.pc = "upd_gallery_del"
           /\ ~InList(img_name, req.current_gallery)
           /\ UpdDeleteGallery(img_name))
          => /\ disk' = disk
             /\ req'.pc = "upd_gallery_del"
             /\ req'.current_gallery = req.current_gallery
             /\ resp' = resp]_vars

\* The loop has passed a name that is not in the entry's gallery while a
\* file of that name, referred to by a committed row, is on disk.
GalleryMissWitness ==
    /\ req.pc = "upd_gallery_del"
    /\ \E i \in 1..Len(req.delete_images) :
          /\ ~InList(req.delete_images[i], JsonLoads(contacts[req.id].multiple_images))
          /\ PathJoin(IMAGE_DIR, req.delete_images[i]) \in disk \cap AllRefs

\* C10: soft_delete of an entry that is already soft-deleted leaves the row
\* as it was, deleted_at included.
SoftDeleteIsIdempotent ==
    (hist.op = "soft_delete" /\ hist.found /\ hist.pre.deleted_at # None)
        => contacts[hist.id] = hist.pre

\* C11: an update in which the removal of an old file failed still commits
\* the record mutation: the entry carries the message the request sent.
RemoveFailureIsTolerated ==
    hist.op = "update_remove_failed"
        => contacts[hist.id].message = hist.message

----------------------------------------------------------------------------
(* Properties of the payment system, checked under PaySpec *)

\* The status a stored code stands for: the success prefix is CONFIRMED,
\* anything else DECLINED.
StatusOf(status_code) ==
    IF ~IsNone(status_code) /\ StartsWith(Val(status_code), SuccessPrefix)
    THEN "CONFIRMED" ELSE "DECLINED"

\* The result code the gateway answered with, if any.
GatewayCode(reply) ==
    IF reply.kind \in {"json", "http_error_json"}
    THEN Get(reply.body.result, Uncoded).code
    ELSE None

\* C2: a callback leaves the number of rows unchanged and, for a row that a
\* 3DS initiate logged with the callback's payment id, changes no other row.
CallbackUpdatesOnlyItsRow ==
    hist.op = "callback" =>
        /\ Len(logs) = Len(hist.before)
        /\ \A i \in 1..Len(hist.before) :
              (attempts[i].flow = "3ds" /\ attempts[i].gateway_id = Some(hist.id))
                  => \A j \in 1..Len(hist.before) :
                        j # i => logs[j] = hist.before[j]

\* C3: every direct charge adds exactly one row, whose status is CONFIRMED
\* when the gateway's result code starts with the success prefix and
\* DECLINED otherwise.
DirectChargeLogsOneRow ==
    hist.op = "checkout" =>
        /\ Len(logs) = Len(hist.before) + 1
        /\ StatusOf(logs[Len(logs)].status_code) = StatusOf(GatewayCode(hist.reply))

\* C9: a callback whose lookup matched no row does not end like one that
\* found and updated its row.
CallbackMissIsReported ==
    (/\ hist.op = "callback"
     /\ hist.looked_up
     /\ \A i \in 1..Len(hist.before) : hist.before[i].pay_id # hist.id)
        => resp.kind # "html"

\* C12: a 3DS initiate that the gateway answered writes one row whose status
\* is PENDING_3DS, whatever result code the answer carried.
InitiateLogsPending3DS ==
    (hist.op = "initiate" /\ ~HelperRaises(hist.reply)) =>
        /\ Len(logs) = Len(hist.before) + 1
        /\ logs[Len(logs)].status_code = Some(CodePending3DS)

\* C13: a callback that ends with 'Verification Failed' has modified no row.
VerificationFailedChangesNothing ==
    (hist.op = "callback" /\ resp = VerificationFailed) => logs = hist.before

====
